---- MODULE Spec2Model ----
(***************************************************************************)
(* SafeSign (main.py): the /analyze pipeline.                              *)
(*                                                                         *)
(* Representation.  A Python str is a sequence of string atoms whose       *)
(* concatenation is the str.  Every str the code computes on character by  *)
(* character (file names, document text, sentences, severities, the text   *)
(* fields of an AI clause) is held one character per atom; a literal the   *)
(* code only passes along (a title, a canned explanation, a summary        *)
(* sentence) is held as one atom.  A JSON value is a record [k, v]: k is   *)
(* its kind ("missing" for an absent key, "null", "num", "str") and v its  *)
(* str.  A function's result is a record [status, val] with status "ok",   *)
(* "none" (Python None) or "raised" (an exception left the function).      *)
(***************************************************************************)
EXTENDS Integers, Sequences, FiniteSets, TLC

VARIABLES groq_client, pc, args, ret, trace

vars == <<groq_client, pc, args, ret, trace>>

(***************************************************************************)
(* Bounds of the checked inputs.                                           *)
(***************************************************************************)
\* fragments in a text handed to fallback_detect_risks
MaxFrags == 3
\* fragments in the content of an uploaded document
MaxDocFrags == 2
\* pages of an uploaded PDF
MaxPages == 2
\* atoms of the backend's raw output
MaxRaw == 4
\* clause entries in the backend's JSON payload
MaxClauses == 2
\* clauses in a list handed to calculate_risk_score
MaxScoreClauses == 5
\* |score| handed to risk_level_from_score
MaxScoreArg == 110

(***************************************************************************)
(* Python str operations.                                                  *)
(***************************************************************************)
\* the ASCII letters str.lower() changes
LowerCase ==
    "A" :> "a" @@ "B" :> "b" @@ "C" :> "c" @@ "D" :> "d" @@ "E" :> "e" @@ "F" :> "f" @@
    "G" :> "g" @@ "H" :> "h" @@ "I" :> "i" @@ "J" :> "j" @@ "K" :> "k" @@ "L" :> "l" @@
    "M" :> "m" @@ "N" :> "n" @@ "O" :> "o" @@ "P" :> "p" @@ "Q" :> "q" @@ "R" :> "r" @@
    "S" :> "s" @@ "T" :> "t" @@ "U" :> "u" @@ "V" :> "v" @@ "W" :> "w" @@ "X" :> "x" @@
    "Y" :> "y" @@ "Z" :> "z"

LowerChar(c) == IF c \in DOMAIN LowerCase THEN LowerCase[c] ELSE c

\* str.lower()
LowerStr(s) == SubSeq([i \in 1..Len(s) |-> LowerChar(s[i])], 1, Len(s))

\* the characters str.strip() removes
IsSpace(c) == c \in {" ", "\t", "\n", "\r", "\f"}

RECURSIVE LStrip(_)
LStrip(s) == IF s # <<>> /\ IsSpace(Head(s)) THEN LStrip(Tail(s)) ELSE s

RECURSIVE RStrip(_)
RStrip(s) ==
    IF s # <<>> /\ IsSpace(s[Len(s)]) THEN RStrip(SubSeq(s, 1, Len(s) - 1)) ELSE s

\* str.strip()
Strip(s) == RStrip(LStrip(s))

\* str.replace("\n", " ")
ReplaceNewlines(s) ==
    SubSeq([i \in 1..Len(s) |-> IF s[i] = "\n" THEN " " ELSE s[i]], 1, Len(s))

\* whether kw occurs in s at index i
OccursAt(s, kw, i) ==
    /\ i + Len(kw) - 1 <= Len(s)
    /\ \A j \in 1..Len(kw) : s[i + j - 1] = kw[j]

\* kw in s
Contains(s, kw) == \E i \in 1..(Len(s) - Len(kw) + 1) : OccursAt(s, kw, i)

\* str.endswith(suffix)
EndsWith(s, suffix) ==
    /\ Len(suffix) <= Len(s)
    /\ SubSeq(s, Len(s) - Len(suffix) + 1, Len(s)) = suffix

\* str.find(c): the first index of c, counted from 0, or -1
Find(s, c) ==
    IF \E i \in 1..Len(s) : s[i] = c
    THEN (CHOOSE i \in 1..Len(s) : s[i] = c /\ \A j \in 1..(i - 1) : s[j] # c) - 1
    ELSE -1

\* str.rfind(c): the last index of c, counted from 0, or -1
RFind(s, c) ==
    IF \E i \in 1..Len(s) : s[i] = c
    THEN (CHOOSE i \in 1..Len(s) : s[i] = c /\ \A j \in (i + 1)..Len(s) : s[j] # c) - 1
    ELSE -1

\* s[start:stop] for start >= 0 and stop >= 0 (indices counted from 0)
Slice(s, start, stop) ==
    LET hi == IF stop > Len(s) THEN Len(s) ELSE stop
    IN  IF start >= hi THEN <<>> ELSE SubSeq(s, start + 1, hi)

\* re.split(r"[.!?]", s): the pieces between the terminators, empty ones kept
ReSplit(s) ==
    LET cuts == {i \in 1..Len(s) : s[i] \in {".", "!", "?"}}
        \* the k-th terminator, the start of s for k = 0, its end past the last one
        cut(k) == IF k = 0 THEN 0
                  ELSE IF k > Cardinality(cuts) THEN Len(s) + 1
                  ELSE CHOOSE i \in cuts : Cardinality({j \in cuts : j < i}) = k - 1
    IN  [k \in 1..(Cardinality(cuts) + 1) |-> SubSeq(s, cut(k - 1) + 1, cut(k) - 1)]

\* "sep".join(parts)
RECURSIVE Join(_, _)
Join(sep, parts) ==
    IF parts = <<>> THEN <<>>
    ELSE IF Len(parts) = 1 THEN parts[1]
    ELSE parts[1] \o sep \o Join(sep, Tail(parts))

\* all sequences over S of length at most n
SeqsUpTo(S, n) == UNION {[1..k -> S] : k \in 0..n}

(***************************************************************************)
(* JSON values and function results.                                       *)
(***************************************************************************)
Missing == [k |-> "missing", v |-> <<>>]
Null == [k |-> "null", v |-> <<>>]
Num(n) == [k |-> "num", v |-> n]
Str(s) == [k |-> "str", v |-> s]

Ok(x) == [status |-> "ok", val |-> x]
None == [status |-> "none", val |-> <<>>]
Raised == [status |-> "raised", val |-> <<>>]

\* Python truthiness of a JSON value: None, "" and 0 are falsy
Truthy(j) ==
    \/ j.k = "str" /\ j.v # <<>>
    \/ j.k = "num" /\ j.v # <<"0">>

\* dict.get(key, default): the default only for an absent key
GetOr(j, default) == IF j.k = "missing" THEN default ELSE j


(***************************************************************************)
(* File text extraction.  An upload is [filename, content, opens, pages]:  *)
(* content is the byte string (an ASCII byte is its character, InvalidByte *)
(* a byte that is not UTF-8); opens and pages are what pdfplumber makes of *)
(* it: whether pdfplumber.open succeeds, and per page what extract_text()  *)
(* does: [k |-> "text", v |-> str], [k |-> "none"] or [k |-> "raise"].     *)
(***************************************************************************)
InvalidByte == "0xFF"

\* bytes.decode("utf-8", errors="ignore")
Decode(content) == SelectSeq(content, LAMBDA b : b # InvalidByte)

\* page.extract_text() or ""
PageText(page) == IF page.k = "text" THEN page.v ELSE <<>>

extract_text_from_file(upload_file) ==
    LET filename == LowerStr(upload_file.filename)
        content == upload_file.content
    IN  IF EndsWith(filename, <<".", "p", "d", "f">>)
        THEN IF /\ upload_file.opens
                /\ \A i \in 1..Len(upload_file.pages) : upload_file.pages[i].k # "raise"
             THEN Join(<<"\n">>,
                       [i \in 1..Len(upload_file.pages) |-> PageText(upload_file.pages[i])])
             ELSE Decode(content)
        ELSE Decode(content)

(***************************************************************************)
(* AI-based clause detection.  The backend is opaque: one call either      *)
(* raises (network error, timeout, authentication failure) or returns a    *)
(* completion whose message content is None or a str.  The str is a        *)
(* sequence of atoms "{", "}", " ", "x" (a character of prose) and         *)
(* MembersAtom, which stands for the members written between the outer     *)
(* braces of a JSON object; `data` is the object those members decode to.  *)
(***************************************************************************)
MembersAtom == "\"clauses\": ..."

\* json.loads(json_str): an object, or a raised JSONDecodeError
JsonLoads(json_str, data) ==
    LET t == SelectSeq(json_str, LAMBDA a : ~IsSpace(a))
    IN  IF t = <<"{", "}">> THEN Ok([clauses |-> Missing])
        ELSE IF t = <<"{", MembersAtom, "}">> THEN Ok(data)
        ELSE Raised

\* one pass of the loop body: the cleaned clause, or the AttributeError of
\* calling .get on a non-dict, .lower() or .strip() on a non-str
CleanClause(c) ==
    IF c.k # "obj" THEN Raised
    ELSE LET type == GetOr(c.v.type, Str(<<"other">>))
             title == GetOr(c.v.title, Str(<<"Risky clause">>))
             severity == GetOr(c.v.severity, Str(<<"m", "e", "d", "i", "u", "m">>))
             original_text == GetOr(c.v.original_text, Str(<<>>))
             simplified_text == GetOr(c.v.simplified_text, Str(<<>>))
         IN  IF severity.k # "str" \/ original_text.k # "str" \/ simplified_text.k # "str"
             THEN Raised
             ELSE Ok([type |-> type,
                      title |-> title,
                      severity |-> Str(LowerStr(severity.v)),
                      original_text |-> Str(Strip(original_text.v)),
                      simplified_text |-> Str(Strip(simplified_text.v))])

\* for c in clauses: cleaned.append({...})
RECURSIVE CleanLoop(_, _)
CleanLoop(clauses, cleaned) ==
    IF clauses = <<>> THEN Ok(cleaned)
    ELSE LET c == CleanClause(Head(clauses))
         IN  IF c.status = "raised" THEN Raised
             ELSE CleanLoop(Tail(clauses), Append(cleaned, c.val))

\* the body of the try block
AiTry(backend) ==
    IF backend.k = "raise" THEN Raised
    ELSE IF backend.k = "none" THEN Raised
    ELSE LET content == Strip(backend.raw)
             start == Find(content, "{")
             end == RFind(content, "}")
         IN  IF start = -1 \/ end = -1 THEN None
             ELSE LET data == JsonLoads(Slice(content, start, end + 1), backend.data)
                  IN  IF data.status = "raised" THEN Raised
                      ELSE LET clauses == GetOr(data.val.clauses, [k |-> "list", v |-> <<>>])
                           IN  IF clauses.k = "list" THEN CleanLoop(clauses.v, <<>>)
                               ELSE IF clauses.k = "str" /\ clauses.v = <<>> THEN Ok(<<>>)
                               ELSE Raised

\* try: ... except Exception: return None
ai_detect_risks_NoExcept(client, full_text, language, backend) ==
    IF ~client THEN None ELSE AiTry(backend)

ai_detect_risks(client, full_text, language, backend) ==
    IF ~client THEN None
    ELSE LET r == AiTry(backend)
         IN  IF r.status = "raised" THEN None ELSE r

(***************************************************************************)
(* Rule-based fallback.                                                    *)
(***************************************************************************)
\* the rules dict, in insertion order
rules == <<
    [key |-> <<"lock_in">>, title |-> <<"Lock-in Period">>, severity |-> <<"h", "i", "g", "h">>,
     keywords |-> <<<<"l", "o", "c", "k", "-", "i", "n">>, <<"l", "o", "c", "k", " ", "i", "n">>, <<"m", "i", "n", "i", "m", "u", "m", " ", "t", "e", "n", "u", "r", "e">>, <<"c", "a", "n", "n", "o", "t", " ", "c", "a", "n", "c", "e", "l">>,
                    <<"m", "i", "n", " ", "t", "e", "n", "u", "r", "e">>>>],
    [key |-> <<"foreclosure">>, title |-> <<"Foreclosure / Prepayment Charges">>,
     severity |-> <<"h", "i", "g", "h">>,
     keywords |-> <<<<"f", "o", "r", "e", "c", "l", "o", "s", "u", "r", "e">>, <<"p", "r", "e", "p", "a", "y", "m", "e", "n", "t">>, <<"p", "r", "e", "-", "c", "l", "o", "s", "u", "r", "e">>, <<"p", "r", "e", " ", "c", "l", "o", "s", "u", "r", "e">>>>],
    [key |-> <<"penalty">>, title |-> <<"Penalty & Late Fees">>, severity |-> <<"h", "i", "g", "h">>,
     keywords |-> <<<<"l", "a", "t", "e", " ", "f", "e", "e">>, <<"l", "a", "t", "e", " ", "p", "a", "y", "m", "e", "n", "t">>, <<"p", "e", "n", "a", "l", "t", "y">>, <<"o", "v", "e", "r", "d", "u", "e", " ", "i", "n", "t", "e", "r", "e", "s", "t">>>>],
    [key |-> <<"auto_renew">>, title |-> <<"Automatic Renewal">>, severity |-> <<"m", "e", "d", "i", "u", "m">>,
     keywords |-> <<<<"a", "u", "t", "o", " ", "r", "e", "n", "e", "w", "a", "l">>, <<"a", "u", "t", "o", "-", "r", "e", "n", "e", "w", "a", "l">>, <<"a", "u", "t", "o", "m", "a", "t", "i", "c", "a", "l", "l", "y", " ", "r", "e", "n", "e", "w", "e", "d">>>>],
    [key |-> <<"data_sharing">>, title |-> <<"Data Sharing & Third-Party Consent">>,
     severity |-> <<"m", "e", "d", "i", "u", "m">>,
     keywords |-> <<<<"t", "h", "i", "r", "d", " ", "p", "a", "r", "t", "y">>, <<"s", "h", "a", "r", "e", " ", "y", "o", "u", "r", " ", "d", "a", "t", "a">>, <<"m", "a", "r", "k", "e", "t", "i", "n", "g", " ", "p", "u", "r", "p", "o", "s", "e", "s">>,
                    <<"p", "a", "r", "t", "n", "e", "r", "s", " ", "a", "n", "d", " ", "a", "f", "f", "i", "l", "i", "a", "t", "e", "s">>>>],
    [key |-> <<"charges">>, title |-> <<"Hidden Charges & Fees">>, severity |-> <<"m", "e", "d", "i", "u", "m">>,
     keywords |-> <<<<"p", "r", "o", "c", "e", "s", "s", "i", "n", "g", " ", "f", "e", "e">>, <<"n", "o", "n", "-", "r", "e", "f", "u", "n", "d", "a", "b", "l", "e">>, <<"s", "e", "r", "v", "i", "c", "e", " ", "c", "h", "a", "r", "g", "e">>,
                    <<"a", "d", "d", "i", "t", "i", "o", "n", "a", "l", " ", "c", "h", "a", "r", "g", "e", "s">>, <<"m", "a", "i", "n", "t", "e", "n", "a", "n", "c", "e", " ", "f", "e", "e">>>>]
>>

simple_explanation(title, language) ==
    IF language = "hi"
    THEN CASE title = <<"Lock-in Period">> ->
                <<"Iska matlab hai ki aap kuch time tak yeh plan ya agreement easily band nahi kar sakte.">>
           [] title = <<"Foreclosure / Prepayment Charges">> ->
                <<"Agar aap loan ya EMI jaldi band karoge to extra charges ya penalty lag sakti hai.">>
           [] title = <<"Penalty & Late Fees">> ->
                <<"Payment delay hone par aapko extra late fee ya penalty deni padegi.">>
           [] title = <<"Automatic Renewal">> ->
                <<"Agar aap time se cancel nahi karoge to yeh plan automatically renew ho sakta hai.">>
           [] title = <<"Data Sharing & Third-Party Consent">> ->
                <<"Aapka personal data dusri companies ke saath share ho sakta hai.">>
           [] title = <<"Hidden Charges & Fees">> ->
                <<"Isme aise hidden charges ho sakte hain jo pehle clearly nazar nahi aate.">>
           [] OTHER ->
                <<"Yeh clause aapke liye risk create kar sakta hai. Dhyan se padho.">>
    ELSE CASE title = <<"Lock-in Period">> ->
                <<"This means you may not be able to easily exit or cancel this plan for some time.">>
           [] title = <<"Foreclosure / Prepayment Charges">> ->
                <<"If you close the loan or EMI early, you may have to pay extra foreclosure or prepayment charges.">>
           [] title = <<"Penalty & Late Fees">> ->
                <<"If your payment is late, you may need to pay penalty or late fees.">>
           [] title = <<"Automatic Renewal">> ->
                <<"The plan may renew automatically unless you cancel it in time.">>
           [] title = <<"Data Sharing & Third-Party Consent">> ->
                <<"Your personal data may be shared with other companies or partners.">>
           [] title = <<"Hidden Charges & Fees">> ->
                <<"There might be extra fees that are not clearly visible at first.">>
           [] OTHER ->
                <<"This clause might create some risk for you. Please read it carefully.">>

\* [s.strip() for s in pieces if s.strip()]
RECURSIVE StripAll(_)
StripAll(pieces) ==
    IF pieces = <<>> THEN <<>>
    ELSE LET s == Strip(Head(pieces))
         IN  (IF s # <<>> THEN <<s>> ELSE <<>>) \o StripAll(Tail(pieces))

\* sentences = [s.strip() for s in re.split(r"[.!?]", text_clean) if s.strip()]
Sentences(text) ==
    LET pieces == ReSplit(ReplaceNewlines(text))
    IN  StripAll(pieces)

\* the clause appended for a rule and a sentence
RuleClause(rule, sentence, language) ==
    [type |-> Str(rule.key),
     title |-> Str(rule.title),
     severity |-> Str(rule.severity),
     original_text |-> Str(sentence),
     simplified_text |-> Str(simple_explanation(rule.title, language))]

\* for kw in rule["keywords"], from the k-th keyword on; lower is
\* sentence.lower() and st is [detected, seen].  A hit on a tag already seen
\* goes on to the next keyword (continue); a hit on a new tag appends and
\* leaves the loop (break).
RECURSIVE KeywordLoopFrom(_, _, _, _, _, _)
KeywordLoopFrom(sentence, lower, rule, k, language, st) ==
    IF k > Len(rule.keywords) THEN st
    ELSE IF Contains(lower, rule.keywords[k])
         THEN LET tag == <<rule.title, sentence>>
              IN  IF tag \in st.seen
                  THEN KeywordLoopFrom(sentence, lower, rule, k + 1, language, st)
                  ELSE [detected |-> Append(st.detected,
                                            RuleClause(rule, sentence, language)),
                        seen |-> st.seen \cup {tag}]
         ELSE KeywordLoopFrom(sentence, lower, rule, k + 1, language, st)

\* the same loop without the seen set: every first hit appends
KeywordLoop_NoSeen(sentence, lower, rule, language, st) ==
    IF \E k \in 1..Len(rule.keywords) : Contains(lower, rule.keywords[k])
    THEN [detected |-> Append(st.detected, RuleClause(rule, sentence, language)),
          seen |-> st.seen]
    ELSE st

KeywordLoop(sentence, lower, rule, language, st) ==
    KeywordLoopFrom(sentence, lower, rule, 1, language, st)

\* for key, rule in rules.items(), from the r-th rule on
RECURSIVE RuleLoop(_, _, _, _, _)
RuleLoop(sentence, lower, r, language, st) ==
    IF r > Len(rules) THEN st
    ELSE RuleLoop(sentence, lower, r + 1, language,
                  KeywordLoop(sentence, lower, rules[r], language, st))

\* for sentence in sentences
RECURSIVE SentenceLoop(_, _, _)
SentenceLoop(sentences, language, st) ==
    IF sentences = <<>> THEN st
    ELSE SentenceLoop(Tail(sentences), language,
                      RuleLoop(Head(sentences), LowerStr(Head(sentences)), 1, language, st))

fallback_detect_risks(text, language) ==
    SentenceLoop(Sentences(text), language, [detected |-> <<>>, seen |-> {}]).detected

(***************************************************************************)
(* Risk score and level.                                                   *)
(***************************************************************************)
Min(a, b) == IF a < b THEN a ELSE b

\* sev = (c.get("severity") or "medium").lower(): a str, or the AttributeError
\* of calling .lower() on a truthy non-str
SeverityOf(c) ==
    LET sev == IF Truthy(c.severity) THEN c.severity ELSE Str(<<"m", "e", "d", "i", "u", "m">>)
    IN  IF sev.k = "str" THEN Ok(LowerStr(sev.v)) ELSE Raised

\* the loop of calculate_risk_score over the clauses not yet visited
RECURSIVE ScoreLoop(_, _)
ScoreLoop(clauses, score) ==
    IF clauses = <<>> THEN Ok(score)
    ELSE LET sev == SeverityOf(Head(clauses))
         IN  IF sev.status = "raised" THEN Raised
             ELSE IF sev.val = <<"h", "i", "g", "h">> THEN ScoreLoop(Tail(clauses), score + 25)
             ELSE IF sev.val = <<"m", "e", "d", "i", "u", "m">> THEN ScoreLoop(Tail(clauses), score + 15)
             ELSE ScoreLoop(Tail(clauses), score + 5)

calculate_risk_score_NoCap(clauses) == ScoreLoop(clauses, 0)

calculate_risk_score(clauses) ==
    LET r == ScoreLoop(clauses, 0)
    IN  IF r.status = "raised" THEN Raised ELSE Ok(Min(r.val, 100))

risk_level_from_score_Le(score) ==
    IF score <= 30 THEN <<"low">>
    ELSE IF score < 70 THEN <<"medium">>
    ELSE <<"high">>

risk_level_from_score(score) ==
    IF score < 30 THEN <<"low">>
    ELSE IF score < 70 THEN <<"medium">>
    ELSE <<"high">>

(***************************************************************************)
(* POST /analyze.                                                          *)
(***************************************************************************)
msg_en ==
    <<"We could not read any text from this document. Please upload a text-based or clear PDF.">>
msg_hi ==
    <<"Is document se text read nahi ho paaya. Kripya ek clear text-based PDF ya file upload karein.">>

\* sum(1 for c in clauses if (c.get("severity") or "").lower() == level)
RECURSIVE CountSeverity(_, _)
CountSeverity(clauses, level) ==
    IF clauses = <<>> THEN 0
    ELSE LET c == Head(clauses)
             sev == IF Truthy(c.severity) THEN LowerStr(c.severity.v) ELSE <<>>
         IN  (IF sev = level THEN 1 ELSE 0) + CountSeverity(Tail(clauses), level)

summary_en(risk_level, high_count, med_count) ==
    Join(<<" ">>,
         <<IF risk_level = <<"high">>
           THEN <<"This document has HIGH risk. It contains clauses that can lock you in or cause significant extra costs.">>
           ELSE IF risk_level = <<"medium">>
           THEN <<"This document has MEDIUM risk. It contains some clauses you should review carefully before signing.">>
           ELSE <<"This document appears to have LOW risk based on our checks, but you should still read it once before signing.">>
         >>
         \o (IF high_count # 0
             THEN << <<"We found about ", ToString(high_count),
                       " high-severity clauses (e.g., heavy penalties or long lock-in).">> >>
             ELSE <<>>)
         \o (IF med_count # 0
             THEN << <<"We also found ", ToString(med_count),
                       " medium-severity clauses (such as extra charges or data sharing).">> >>
             ELSE <<>>)
         \o << <<"Scroll down to review each risky clause in simple language before you decide to sign.">> >>)

summary_hi(risk_level, high_count, med_count) ==
    Join(<<" ">>,
         <<IF risk_level = <<"high">>
           THEN <<"Yeh document HIGH risk wala hai. Isme aise clauses hain jo aapko lock-in kar sakte hain ya extra paise dilaa sakte hain.">>
           ELSE IF risk_level = <<"medium">>
           THEN <<"Yeh document MEDIUM risk ka hai. Isme kuch important clauses hain jo sign karne se pehle dhyaan se padhna chahiye.">>
           ELSE <<"Humaare checks ke hisaab se yeh document LOW risk lagta hai, lekin sign karne se pehle ek baar zaroor padhna chahiye.">>
         >>
         \o (IF high_count # 0
             THEN << <<"Humein lagbhag ", ToString(high_count),
                       " high-risk clauses mile (jaise bada lock-in ya heavy penalty).">> >>
             ELSE <<>>)
         \o (IF med_count # 0
             THEN << <<"Humein ", ToString(med_count),
                       " medium-risk clauses bhi mile (jaise extra charges, processing fee, data sharing).">> >>
             ELSE <<>>)
         \o << <<"Neeche har risky clause ko simple Hinglish/English mein explain kiya gaya hai. Sign karne se pehle ek baar zaroor dekh lo.">> >>)

\* the test without the strip: only the empty string counts as no text
NoText_NoStrip(raw_text) == raw_text = <<>>

\* if not raw_text.strip()
NoText(raw_text) == Strip(raw_text) = <<>>

\* the variant that also falls back on an empty list
UseFallback_OrEmpty(ai) == ai.status = "none" \/ ai.val = <<>>

\* if clauses is None
UseFallback(ai) == ai.status = "none"

\* The handler from the extracted text on: [ret, trace], ret the response or
\* the exception that left the handler, trace the calls made, in order.
Analyze(client, filename, raw_text, language, backend) ==
    IF NoText(raw_text)
    THEN [ret |-> Ok([file_name |-> filename,
                      risk_score |-> 0,
                      risk_level |-> <<"unknown">>,
                      summary |-> IF language = "hi" THEN msg_hi ELSE msg_en,
                      clauses |-> <<>>]),
          trace |-> <<"extract_text_from_file">>]
    ELSE LET ai == ai_detect_risks(client, raw_text, language, backend)
             called == <<"extract_text_from_file", "ai_detect_risks">>
                       \o (IF client THEN <<"chat.completions.create">> ELSE <<>>)
         IN  IF ai.status = "raised" THEN [ret |-> Raised, trace |-> called]
             ELSE LET clauses == IF UseFallback(ai)
                                 THEN fallback_detect_risks(raw_text, language)
                                 ELSE ai.val
                      called2 == called \o (IF UseFallback(ai)
                                            THEN <<"fallback_detect_risks">>
                                            ELSE <<>>)
                                        \o <<"calculate_risk_score">>
                      score == calculate_risk_score(clauses)
                  IN  IF score.status = "raised" THEN [ret |-> Raised, trace |-> called2]
                      ELSE LET risk_score == score.val
                               risk_level == risk_level_from_score(risk_score)
                               high_count == CountSeverity(clauses, <<"h", "i", "g", "h">>)
                               med_count == CountSeverity(clauses, <<"m", "e", "d", "i", "u", "m">>)
                           IN  [ret |-> Ok([file_name |-> filename,
                                            risk_score |-> risk_score,
                                            risk_level |-> risk_level,
                                            summary |->
                                                IF language = "hi"
                                                THEN summary_hi(risk_level, high_count,
                                                                med_count)
                                                ELSE summary_en(risk_level, high_count,
                                                                med_count),
                                            clauses |-> clauses]),
                                trace |-> Append(called2, "risk_level_from_score")]

analyze_document(client, file, language, backend) ==
    Analyze(client, file.filename, extract_text_from_file(file), language, backend)

(***************************************************************************)
(* The inputs the calls are made with.                                     *)
(***************************************************************************)
Languages == {"en", "hi"}

\* Pieces of document text: two keywords of one rule in mixed case, keywords
\* of four rules, the three sentence terminators, a newline, blanks, and a
\* word no rule knows.
FragPenalty == <<"L", "a", "t", "e", " ", "f", "e", "e", ",", " ", "P", "E", "N", "A", "L", "T", "Y">>
FragMany == <<"l", "o", "c", "k", " ", "i", "n", " ", "p", "r", "e", "p", "a", "y", "m", "e", "n", "t", " ", "t", "h", "i", "r", "d", " ", "p", "a", "r", "t", "y", " ", "a", "u", "t", "o", " ", "r", "e", "n", "e", "w", "a", "l">>
Fragments == {FragPenalty, FragMany, <<".">>, <<"?", "\n">>, <<" ">>, <<"o", "k", "!">>}

RECURSIVE Concat(_)
Concat(parts) == IF parts = <<>> THEN <<>> ELSE Head(parts) \o Concat(Tail(parts))

Texts == {Concat(fs) : fs \in SeqsUpTo(Fragments, MaxFrags)}
DocTexts == {Concat(fs) : fs \in SeqsUpTo(Fragments, MaxDocFrags)}

TextFile(content) ==
    [filename |-> <<"a", ".", "t", "x", "t">>, content |-> content, opens |-> FALSE, pages |-> <<>>]

PdfFile(opens, pages) ==
    [filename |-> <<"L", "o", "a", "n", ".", "P", "D", "F">>, content |-> <<"%", "P", "D", "F">> \o <<InvalidByte>>,
     opens |-> opens, pages |-> pages]

PageOutcomes ==
    {[k |-> "text", v |-> FragPenalty], [k |-> "text", v |-> <<"o", "k", "!">>],
     [k |-> "text", v |-> <<>>], [k |-> "none", v |-> <<>>], [k |-> "raise", v |-> <<>>]}

Uploads ==
    {TextFile(t) : t \in DocTexts}
    \cup {TextFile(<<InvalidByte>> \o t \o <<InvalidByte>>) : t \in DocTexts}
    \cup {PdfFile(o, ps) : o \in BOOLEAN, ps \in SeqsUpTo(PageOutcomes, MaxPages)}

CoreUploads ==
    {TextFile(FragPenalty \o <<".">> \o FragMany), TextFile(<<" ", "\n">>),
     PdfFile(TRUE, <<[k |-> "text", v |-> FragPenalty]>>)}

\* Clause entries of the backend's payload: a well-formed one, and the same
\* with one field missing, of another type or of another value.
Entry(type, title, severity, original_text, simplified_text) ==
    [k |-> "obj",
     v |-> [type |-> type, title |-> title, severity |-> severity,
            original_text |-> original_text, simplified_text |-> simplified_text]]

BaseEntry ==
    Entry(Str(<<"penalty">>), Str(<<"Late fee">>), Str(<<"h", "i", "g", "h">>),
          Str(<<" ", "l", "a", "t", "e", " ", "f", "e", "e", " ">>), Str(<<"Y", "o", "u", " ", "p", "a", "y", " ", "m", "o", "r", "e", ".", "\n">>))

EntrySeverities ==
    {Missing, Null, Num(<<"3">>), Str(<<"H", "I", "G", "H">>), Str(<<"M", "e", "d", "i", "u", "m">>), Str(<<"l", "o", "w">>),
     Str(<<"c", "r", "i", "t", "i", "c", "a", "l">>), Str(<<>>)}

Entries ==
    {BaseEntry}
    \cup {[BaseEntry EXCEPT !.v.severity = s] : s \in EntrySeverities}
    \cup {[BaseEntry EXCEPT !.v.type = t] : t \in {Missing, Num(<<"7">>)}}
    \cup {[BaseEntry EXCEPT !.v.title = t] : t \in {Missing, Null}}
    \cup {[BaseEntry EXCEPT !.v.original_text = t] : t \in {Missing, Null}}
    \cup {[BaseEntry EXCEPT !.v.simplified_text = t] : t \in {Missing, Num(<<"1">>)}}
    \cup {Entry(Missing, Missing, Missing, Missing, Missing), Str(<<"p", "e", "n", "a", "l", "t", "y">>)}

List(items) == [k |-> "list", v |-> items]

Payloads ==
    {[clauses |-> c] : c \in {Missing, Null, Num(<<"0">>), Str(<<>>), Str(<<"n", "o", "n", "e">>)}}
    \cup {[clauses |-> List(es)] : es \in SeqsUpTo(Entries, MaxClauses)}

RawAtoms == {"{", "}", " ", "x", MembersAtom}

Content(raw, data) == [k |-> "content", raw |-> raw, data |-> data]

BaseData == [clauses |-> List(<<BaseEntry>>)]

WrappedRaw == <<"x", " ", "{", MembersAtom, "}", "x">>

Backends ==
    {[k |-> "raise", raw |-> <<>>, data |-> BaseData],
     [k |-> "none", raw |-> <<>>, data |-> BaseData]}
    \cup {Content(raw, BaseData) : raw \in SeqsUpTo(RawAtoms, MaxRaw)}
    \cup {Content(WrappedRaw, d) : d \in Payloads}

CoreBackends ==
    {[k |-> "raise", raw |-> <<>>, data |-> BaseData],
     Content(<<"x", "x">>, BaseData),
     Content(WrappedRaw, BaseData),
     Content(WrappedRaw, [clauses |-> List(<<>>)]),
     Content(WrappedRaw,
             [clauses |-> List(<<[BaseEntry EXCEPT !.v.severity = Str(<<"C", "r", "i", "t", "i", "c", "a", "l">>)]>>)]),
     Content(WrappedRaw, [clauses |-> List(<<[BaseEntry EXCEPT !.v.severity = Null]>>)])}

Requests == (Uploads \X CoreBackends) \cup (CoreUploads \X Backends)

\* Clause dicts handed to calculate_risk_score.
ClauseWith(severity) ==
    [type |-> Str(<<"other">>), title |-> Str(<<"Risky clause">>), severity |-> severity,
     original_text |-> Str(<<>>), simplified_text |-> Str(<<>>)]

ScoreSeverities == {Str(<<"h", "i", "g", "h">>), Str(<<"M", "e", "d", "i", "u", "m">>), Str(<<"l", "o", "w">>), Str(<<"c", "r", "i", "t", "i", "c", "a", "l">>), Null}

ScoreInputs ==
    SeqsUpTo({ClauseWith(s) : s \in ScoreSeverities}, MaxScoreClauses)
    \cup {<<ClauseWith(s)>> : s \in {Missing, Str(<<>>), Str(<<"H", "I", "G", "H">>), Num(<<"3">>)}}

(***************************************************************************)
(* The state machine.  groq_client is the process-wide client, set once at *)
(* import; pc is "idle" or the function whose call has run to its return;  *)
(* args, ret and trace are the arguments of that call, its result, and the *)
(* calls it made.                                                          *)
(***************************************************************************)
NoArgs == [none |-> TRUE]

Init ==
    /\ groq_client \in BOOLEAN
    /\ pc = "idle"
    /\ args = NoArgs
    /\ ret = None
    /\ trace = <<>>

AnalyzeDocument(file, language, backend) ==
    /\ pc = "idle"
    /\ LET r == analyze_document(groq_client, file, language, backend)
       IN  /\ ret' = r.ret
           /\ trace' = r.trace
    /\ args' = [file |-> file, language |-> language, backend |-> backend]
    /\ pc' = "analyze_document"
    /\ UNCHANGED groq_client

ExtractTextFromFile(file) ==
    /\ pc = "idle"
    /\ ret' = Ok(extract_text_from_file(file))
    /\ trace' = <<"extract_text_from_file">>
    /\ args' = [file |-> file]
    /\ pc' = "extract_text_from_file"
    /\ UNCHANGED groq_client

AiDetectRisks(full_text, language, backend) ==
    /\ pc = "idle"
    /\ ret' = ai_detect_risks(groq_client, full_text, language, backend)
    /\ trace' = <<"ai_detect_risks">>
                \o (IF groq_client THEN <<"chat.completions.create">> ELSE <<>>)
    /\ args' = [full_text |-> full_text, language |-> language, backend |-> backend]
    /\ pc' = "ai_detect_risks"
    /\ UNCHANGED groq_client

FallbackDetectRisks(text, language) ==
    /\ pc = "idle"
    /\ ret' = Ok(fallback_detect_risks(text, language))
    /\ trace' = <<"fallback_detect_risks">>
    /\ args' = [text |-> text, language |-> language]
    /\ pc' = "fallback_detect_risks"
    /\ UNCHANGED groq_client

CalculateRiskScore(clauses) ==
    /\ pc = "idle"
    /\ ret' = calculate_risk_score(clauses)
    /\ trace' = <<"calculate_risk_score">>
    /\ args' = [clauses |-> clauses]
    /\ pc' = "calculate_risk_score"
    /\ UNCHANGED groq_client

RiskLevelFromScore(score) ==
    /\ pc = "idle"
    /\ ret' = Ok(risk_level_from_score(score))
    /\ trace' = <<"risk_level_from_score">>
    /\ args' = [score |-> score]
    /\ pc' = "risk_level_from_score"
    /\ UNCHANGED groq_client

\* GET /: the handler answers with the page, whatever the state
ServeFrontend ==
    /\ pc = "idle"
    /\ ret' = Ok(<<"index.html">>)
    /\ trace' = <<"serve_frontend">>
    /\ args' = NoArgs
    /\ pc' = "serve_frontend"
    /\ UNCHANGED groq_client

\* the call returns; the process keeps nothing of it but groq_client
Return ==
    /\ pc # "idle"
    /\ pc' = "idle"
    /\ args' = NoArgs
    /\ ret' = None
    /\ trace' = <<>>
    /\ UNCHANGED groq_client

\* A call is entered only from the idle process; the guard stands before the
\* choice of the arguments.
Next ==
    \/ /\ pc = "idle"
       /\ \E rq \in Requests, language \in Languages :
               AnalyzeDocument(rq[1], language, rq[2])
    \/ /\ pc = "idle"
       /\ \E file \in Uploads : ExtractTextFromFile(file)
    \/ /\ pc = "idle"
       /\ \E backend \in Backends, language \in Languages :
               AiDetectRisks(FragPenalty, language, backend)
    \/ /\ pc = "idle"
       /\ \E text \in Texts, language \in Languages : FallbackDetectRisks(text, language)
    \/ /\ pc = "idle"
       /\ \E clauses \in ScoreInputs : CalculateRiskScore(clauses)
    \/ /\ pc = "idle"
       /\ \E score \in (-MaxScoreArg)..MaxScoreArg : RiskLevelFromScore(score)
    \/ ServeFrontend
    \/ Return

Spec == Init /\ [][Next]_vars

(***************************************************************************)
(* Properties.                                                             *)
(***************************************************************************)
Called(f) == \E i \in 1..Len(trace) : trace[i] = f

Returned(f) == pc = f

\* empty or all-whitespace
Blank(text) == \A i \in 1..Len(text) : IsSpace(text[i])

\* the text the handler extracted from the uploaded file
RawText == extract_text_from_file(args.file)

Levels == {<<"low">>, <<"medium">>, <<"high">>}

\* low iff s < 30, medium iff 30 <= s < 70, high iff s >= 70
LevelMatches(level, s) ==
    /\ level = <<"low">> <=> s < 30
    /\ level = <<"medium">> <=> (30 <= s /\ s < 70)
    /\ level = <<"high">> <=> s >= 70

\* C1: when the extracted text is empty or all whitespace, analyze_document
\* returns risk_score 0, risk_level "unknown", no clauses and the canned
\* message of the language, and calls neither detector nor the scorer,
\* whatever the client and the backend are.
C1_NoTextShortCircuit ==
    (Returned("analyze_document") /\ Blank(RawText)) =>
        /\ ret.status = "ok"
        /\ ret.val.risk_score = 0
        /\ ret.val.risk_level = <<"unknown">>
        /\ ret.val.clauses = <<>>
        /\ ret.val.summary = (IF args.language = "hi" THEN msg_hi ELSE msg_en)
        /\ ~Called("ai_detect_risks")
        /\ ~Called("fallback_detect_risks")
        /\ ~Called("calculate_risk_score")

\* a whitespace-only document, with the client configured and a backend that
\* would have answered
C1_Witness ==
    /\ Returned("analyze_document")
    /\ groq_client
    /\ args.backend.k = "content"
    /\ RawText # <<>>
    /\ Blank(RawText)
    /\ ret.val.risk_level = <<"unknown">>

\* C2, as stated: on non-blank text exactly one of the two strategies executes
\* (the AI strategy counted as executing only when the backend is called), and
\* the clause list of the response is the output of one strategy.
C2_ExactlyOneExecutes ==
    (Returned("analyze_document") /\ ~Blank(RawText)) =>
        LET ai == ai_detect_risks(groq_client, RawText, args.language, args.backend)
        IN  /\ Called("chat.completions.create") # Called("fallback_detect_risks")
            /\ ret.status = "ok"
            /\ ret.val.clauses \in {ai.val, fallback_detect_risks(RawText, args.language)}

\* C2, amended: on non-blank text ai_detect_risks is always attempted;
\* fallback_detect_risks runs as well exactly when the attempt returned None;
\* the clause list of the response is the output of one of them alone: the
\* AI's list when it returned one, the rule-based list otherwise.
C2_OneStrategySuppliesClauses ==
    (Returned("analyze_document") /\ ~Blank(RawText)) =>
        LET ai == ai_detect_risks(groq_client, RawText, args.language, args.backend)
        IN  /\ ret.status = "ok"
            /\ Called("ai_detect_risks")
            /\ Called("fallback_detect_risks") <=> ai.status = "none"
            /\ ai.status = "none" =>
                   ret.val.clauses = fallback_detect_risks(RawText, args.language)
            /\ ai.status = "ok" => ret.val.clauses = ai.val

\* the backend was called, failed, and the rule-based detector supplied the
\* clauses
C2_Witness ==
    /\ Returned("analyze_document")
    /\ Called("chat.completions.create")
    /\ Called("fallback_detect_risks")
    /\ ret.status = "ok"
    /\ ret.val.clauses # <<>>

\* what json.loads makes of the text from the first "{" to the last "}" of the
\* raw output; a raised error when the output holds no "{" or no "}"
EmbeddedJson(backend) ==
    LET opens == {i \in 1..Len(backend.raw) : backend.raw[i] = "{"}
        closes == {i \in 1..Len(backend.raw) : backend.raw[i] = "}"}
    IN  IF opens = {} \/ closes = {} THEN Raised
        ELSE LET first == CHOOSE i \in opens : \A j \in opens : i <= j
                 last == CHOOSE i \in closes : \A j \in closes : j <= i
             IN  JsonLoads(SubSeq(backend.raw, first, last), backend.data)

\* the outcomes C3 names: no client, the call raising, no "{" or no "}" in the
\* raw output, or the text from the first "{" to the last "}" not being JSON
BackendFails(client, backend) ==
    \/ ~client
    \/ backend.k = "raise"
    \/ backend.k = "content" /\ EmbeddedJson(backend).status = "raised"

WellFormed(response) ==
    /\ response.file_name = args.file.filename
    /\ response.risk_score \in 0..100
    /\ response.risk_level \in Levels
    /\ response.summary # <<>>
    /\ \A i \in 1..Len(response.clauses) :
           /\ response.clauses[i].severity.k = "str"
           /\ response.clauses[i].original_text.k = "str"
           /\ response.clauses[i].simplified_text.k = "str"

\* C3: for every failing backend outcome ai_detect_risks returns None without
\* raising, and analyze_document completes with a well-formed response whose
\* clauses are those of the rule-based detector.
C3_BackendFailureDegrades ==
    /\ (Returned("ai_detect_risks") /\ BackendFails(groq_client, args.backend)) =>
           ret = None
    /\ (/\ Returned("analyze_document")
        /\ ~Blank(RawText)
        /\ BackendFails(groq_client, args.backend)) =>
           /\ ret.status = "ok"
           /\ Called("fallback_detect_risks")
           /\ ret.val.clauses = fallback_detect_risks(RawText, args.language)
           /\ WellFormed(ret.val)

\* the backend answered with braces around text that is not JSON, and the
\* response carries the rule-based clauses
C3_Witness ==
    /\ Returned("analyze_document")
    /\ groq_client
    /\ args.backend.k = "content"
    /\ Find(args.backend.raw, "{") # -1
    /\ RFind(args.backend.raw, "}") # -1
    /\ BackendFails(groq_client, args.backend)
    /\ ret.status = "ok"
    /\ ret.val.clauses # <<>>
    /\ ret.val.clauses = fallback_detect_risks(RawText, args.language)

\* the raw output holds a JSON object whose "clauses" is a list, or absent
ParsesAsClauseList(backend) ==
    /\ backend.k = "content"
    /\ EmbeddedJson(backend).status = "ok"
    /\ EmbeddedJson(backend).val.clauses.k \in {"missing", "list"}

\* the entries of that list
PayloadEntries(backend) ==
    LET clauses == EmbeddedJson(backend).val.clauses
    IN  IF clauses.k = "list" THEN clauses.v ELSE <<>>

\* a field repaired as C4 states it: a str is kept, anything else defaulted
RepairedStr(j, default) == IF j.k = "str" THEN j.v ELSE default

\* C4: when the raw output parses as a JSON object, every entry with a missing
\* or wrongly typed field is repaired with the defaults (type "other",
\* severity "medium", text fields "") and the AI result is kept.
C4_ShapeErrorsRepaired ==
    (/\ Returned("ai_detect_risks")
     /\ groq_client
     /\ ParsesAsClauseList(args.backend)) =>
        LET entries == PayloadEntries(args.backend)
            field(e, f) == IF e.k = "obj" THEN e.v[f] ELSE Missing
        IN  /\ ret.status = "ok"
            /\ Len(ret.val) = Len(entries)
            /\ \A i \in 1..Len(entries) :
                   /\ ret.val[i].type.v = RepairedStr(field(entries[i], "type"), <<"other">>)
                   /\ ret.val[i].severity.v =
                          LowerStr(RepairedStr(field(entries[i], "severity"), <<"m", "e", "d", "i", "u", "m">>))
                   /\ ret.val[i].original_text.v =
                          Strip(RepairedStr(field(entries[i], "original_text"), <<>>))
                   /\ ret.val[i].simplified_text.v =
                          Strip(RepairedStr(field(entries[i], "simplified_text"), <<>>))

\* the weight C5 gives a severity: high 25, low 5, anything else 15
ClaimedWeight(severity) ==
    LET sev == IF severity.k = "str" THEN LowerStr(severity.v) ELSE <<>>
    IN  IF sev = <<"h", "i", "g", "h">> THEN 25 ELSE IF sev = <<"l", "o", "w">> THEN 5 ELSE 15

RECURSIVE ClaimedSum(_)
ClaimedSum(clauses) ==
    IF clauses = <<>> THEN 0
    ELSE ClaimedWeight(Head(clauses).severity) + ClaimedSum(Tail(clauses))

\* C5: calculate_risk_score(clauses) = min(100, sum of the weights), with high
\* 25, medium 15, low 5 and every missing or unknown severity 15.
C5_ScoreIsCappedWeightSum ==
    (/\ Returned("calculate_risk_score")
     /\ \A i \in 1..Len(args.clauses) :
            args.clauses[i].severity.k \in {"missing", "null", "str"}) =>
        ret = Ok(Min(100, ClaimedSum(args.clauses)))

\* C6: risk_level_from_score(s) is low iff s < 30, medium iff 30 <= s < 70 and
\* high iff s >= 70, and on the normal path the response's risk_level is that
\* level of its risk_score.
C6_LevelThresholds ==
    /\ Returned("risk_level_from_score") =>
           /\ ret.status = "ok"
           /\ ret.val \in Levels
           /\ LevelMatches(ret.val, args.score)
    /\ (Returned("analyze_document") /\ ~Blank(RawText)) =>
           /\ ret.status = "ok"
           /\ ret.val.risk_level \in Levels
           /\ LevelMatches(ret.val.risk_level, ret.val.risk_score)

\* the boundary 70, computed as high
C6_Witness ==
    /\ Returned("risk_level_from_score")
    /\ args.score = 70
    /\ ret.val = <<"high">>

\* a keyword of the r-th rule occurs in the sentence, ignoring case
RuleMatches(r, sentence) ==
    \E k \in 1..Len(rules[r].keywords) : Contains(LowerStr(sentence), rules[r].keywords[k])

\* C7: fallback_detect_risks reports exactly one clause for each distinct pair
\* of a rule and a sentence holding a keyword of the rule: never the same
\* (title, sentence) twice, once per matching rule, and nothing else.
C7_OneClausePerRuleAndSentence ==
    Returned("fallback_detect_risks") =>
        LET out == ret.val
            sentences == Sentences(args.text)
            matching == {p \in (1..Len(rules)) \X {sentences[i] : i \in 1..Len(sentences)} :
                            RuleMatches(p[1], p[2])}
        IN  /\ \A i, j \in 1..Len(out) :
                   (out[i].title = out[j].title
                    /\ out[i].original_text = out[j].original_text) => i = j
            /\ \A p \in matching :
                   \E i \in 1..Len(out) :
                       /\ out[i].type = Str(rules[p[1]].key)
                       /\ out[i].title = Str(rules[p[1]].title)
                       /\ out[i].original_text = Str(p[2])
            /\ Len(out) = Cardinality(matching)

\* one sentence, written twice, with two keywords of the penalty rule: one
\* clause
C7_Witness ==
    /\ Returned("fallback_detect_risks")
    /\ args.text = FragPenalty \o <<".">> \o FragPenalty
    /\ Len(ret.val) = 1

\* C8: in every response each clause's severity is one of the lower-case
\* values low, medium, high.
C8_SeverityInEnum ==
    (Returned("analyze_document") /\ ret.status = "ok") =>
        \A i \in 1..Len(ret.val.clauses) :
            ret.val.clauses[i].severity \in {Str(<<"l", "o", "w">>), Str(<<"m", "e", "d", "i", "u", "m">>), Str(<<"h", "i", "g", "h">>)}

\* C9: a PDF page whose extraction raises does not abort the other pages: the
\* returned text holds the text of every page that did not fail, and
\* extract_text_from_file does not raise.
C9_BadPageKeepsOtherPages ==
    (/\ Returned("extract_text_from_file")
     /\ EndsWith(LowerStr(args.file.filename), <<".", "p", "d", "f">>)
     /\ args.file.opens) =>
        /\ ret.status = "ok"
        /\ \A i \in 1..Len(args.file.pages) :
               args.file.pages[i].k = "text" => Contains(ret.val, args.file.pages[i].v)

\* C10: the response's risk_level is "unknown" exactly when the extracted text
\* is blank; otherwise it is low, medium or high and risk_score is in 0..100.
C10_UnknownOnlyForNoText ==
    Returned("analyze_document") =>
        /\ ret.status = "ok"
        /\ ret.val.risk_level = <<"unknown">> <=> Blank(RawText)
        /\ ~Blank(RawText) =>
               /\ ret.val.risk_level \in Levels
               /\ ret.val.risk_score \in 0..100

\* a document whose clause weights add up to more than 100
C10_Witness ==
    /\ Returned("analyze_document")
    /\ ~Blank(RawText)
    /\ ret.status = "ok"
    /\ ScoreLoop(ret.val.clauses, 0).val > 100
    /\ ret.val.risk_score = 100
    /\ ret.val.risk_level = <<"high">>
====
